---- MODULE Spec2Model ----
(***************************************************************************)
(* Model of src/http/client_async.rs: the EspHttpConnection phase machine, *)
(* the single event-handler slot, the ClientFuture completion bridge and   *)
(* the header-fetch / redirect loop.  The native HTTP engine is the        *)
(* environment: every native call that may emit callbacks is "in flight"   *)
(* for a few steps, during which the engine delivers events through        *)
(* on_events, and then returns a result chosen by the engine.              *)
(***************************************************************************)
EXTENDS Integers, Sequences, FiniteSets, TLC

\* ------------------------------------------------------------------ bounds
\* ClientFuture instances (initiate_request calls that reach ClientFuture::new)
MaxFutures == 2
\* callbacks the engine delivers during one native call
MaxEvents == 2
\* redirect statuses the engine reports during one initiate_response
MaxRedirects == 2

\* ------------------------------------------------------------ text helpers
\* Strings are sequences of one-character strings.
UpperChars == <<"A","B","C","D","E","F","G","H","I","J","K","L","M",
                "N","O","P","Q","R","S","T","U","V","W","X","Y","Z">>

LowerChars == <<"a","b","c","d","e","f","g","h","i","j","k","l","m",
                "n","o","p","q","r","s","t","u","v","w","x","y","z">>

Digits == <<"0","1","2","3","4","5","6","7","8","9">>

\* u8::to_ascii_lowercase, as used by eq_ignore_ascii_case and Uncased
to_ascii_lowercase(c) ==
    IF \E i \in 1..26 : UpperChars[i] = c
    THEN LowerChars[CHOOSE i \in 1..26 : UpperChars[i] = c]
    ELSE c

\* str::eq_ignore_ascii_case
eq_ignore_ascii_case(a, b) ==
    /\ Len(a) = Len(b)
    /\ \A i \in 1..Len(a) : to_ascii_lowercase(a[i]) = to_ascii_lowercase(b[i])

\* The equivalence class of a name under Uncased's Eq/Ord: its lower-cased form.
Uncased(s) == [i \in 1..Len(s) |-> to_ascii_lowercase(s[i])]

IsDigit(c) == \E i \in 1..10 : Digits[i] = c

DigitVal(c) == (CHOOSE i \in 1..10 : Digits[i] = c) - 1

RECURSIVE DigitsValue(_)
DigitsValue(s) ==
    IF s = <<>> THEN 0
    ELSE 10 * DigitsValue(SubSeq(s, 1, Len(s) - 1)) + DigitVal(s[Len(s)])

\* A u64 is kept at its full width as four 16-bit limbs, most significant
\* first: <<l3, l2, l1, l0>> stands for ((l3 * 2^16 + l2) * 2^16 + l1) * 2^16 + l0.
LimbBase == 65536

U64(n) == <<0, 0, n \div LimbBase, n % LimbBase>>

\* v * 10 + d in u64 arithmetic: [ok, val], ok = FALSE on overflow
mul10_add(v, d) ==
    LET t0 == v[4] * 10 + d
        t1 == v[3] * 10 + t0 \div LimbBase
        t2 == v[2] * 10 + t1 \div LimbBase
        t3 == v[1] * 10 + t2 \div LimbBase
    IN  [ok |-> t3 < LimbBase,
         val |-> <<t3 % LimbBase, t2 % LimbBase, t1 % LimbBase, t0 % LimbBase>>]

RECURSIVE parse_digits(_)
parse_digits(d) ==
    IF d = <<>> THEN [ok |-> TRUE, val |-> U64(0)]
    ELSE LET front == parse_digits(SubSeq(d, 1, Len(d) - 1))
             next == mul10_add(front.val, DigitVal(d[Len(d)]))
         IN  IF front.ok /\ next.ok THEN next ELSE [ok |-> FALSE, val |-> U64(0)]

\* str::parse::<u64>: an optional '+', then one or more decimal digits whose
\* value fits 64 bits.  Result [ok, val].
parse_u64(s) ==
    LET d == IF s # <<>> /\ s[1] = "+" THEN Tail(s) ELSE s
    IN  IF d # <<>> /\ (\A i \in 1..Len(d) : IsDigit(d[i]))
        THEN parse_digits(d)
        ELSE [ok |-> FALSE, val |-> U64(0)]

\* `as _` from u64 to the c_int parameter of esp_http_client_open: the low
\* 32 bits, read as two's complement
as_c_int(v) ==
    IF v[3] >= LimbBase \div 2
    THEN (v[3] - LimbBase) * LimbBase + v[4]
    ELSE v[3] * LimbBase + v[4]

\* i64::to_string of a non-negative value
RECURSIVE to_string(_)
to_string(n) ==
    IF n < 10 THEN <<Digits[n + 1]>>
    ELSE Append(to_string(n \div 10), Digits[(n % 10) + 1])

CONTENT_LENGTH == <<"C","o","n","t","e","n","t","-","L","e","n","g","t","h">>

\* Option<String>
None == [some |-> FALSE, str |-> <<>>]

Some(s) == [some |-> TRUE, str |-> s]

\* ------------------------------------------------------------------ inputs
\* embedded_svc Method values used by callers
Methods == {"Get", "Head", "Post"}

\* FollowRedirectsPolicy
Policies == {"FollowNone", "FollowGetHead", "FollowAll"}

\* Request header lists passed to initiate_request
ReqHeaderLists ==
    { <<>>,
      << <<CONTENT_LENGTH, <<"4","2">>>> >>,
      << <<Uncased(CONTENT_LENGTH), <<"x">>>> >>,
      << <<CONTENT_LENGTH, <<"4","2">>>>, <<Uncased(CONTENT_LENGTH), <<"+","7">>>> >>,
      << <<CONTENT_LENGTH, <<"4","2","9","4","9","6","7","3","3","8">>>> >> }

\* Response headers (name, value) the engine may deliver
RespHeaders ==
    { << <<"E","T","a","g">>, <<"7">> >>,
      << <<"e","t","a","g">>, <<"0","7">> >>,
      << CONTENT_LENGTH, <<"0","7">> >> }

\* Names a caller may ask header() for
QueryNames ==
    { <<"E","T","A","G">>, <<"e","t","a","g">>, <<"V","i","a">>,
      CONTENT_LENGTH, Uncased(CONTENT_LENGTH) }

\* Status codes the engine may report after a header fetch
Statuses == {200, 302, 304}

\* Values esp_http_client_get_content_length may return (negative = unknown)
ContentLengths == {-1, 7}

\* Results of the native calls that return a count or a negative error
NativeResults == {-1, 0, 3}

\* Wakers of the tasks that may poll a ClientFuture
Wakers == {"w1", "w2"}

\* ------------------------------------------------------------------- state
VARIABLES
    state,                    \* EspHttpConnection.state
    follow_redirects_policy,  \* EspHttpConnection.follow_redirects_policy
    event_handler,            \* *EspHttpConnection.event_handler
    request_content_len,      \* EspHttpConnection.request_content_len
    follow_redirects,         \* EspHttpConnection.follow_redirects
    headers,                  \* EspHttpConnection.headers
    content_len_header,       \* EspHttpConnection.content_len_header
    shared_state,             \* the SharedState of every ClientFuture created
    woken,                    \* wakers on which wake() has been called
    pc,                       \* where the running operation stands
    op,                       \* the operation called last
    arg,                      \* the name passed to the last header() call
    out,                      \* what the last operation returned
    calls,                    \* native primitives invoked by the last operation
    nevents,                  \* callbacks delivered by the native call in flight
    native_method,            \* the engine session's method
    native_status,            \* the engine session's status code
    native_content_length,    \* the engine session's content length
    statuses,                 \* statuses reported during this request's initiate_response
    delivered,                \* header events of this request's latest header fetch
    cl_first,                 \* result of this response's first header(Content-Length)
    connected,                \* ClientFutures whose handler was handed event 1
    mutex,                    \* the Mutex around the latest SharedState
    parked,                   \* wakers polls have stored in the latest SharedState
    stray                     \* a header event came outside a header fetch (this request)

vars ==
    << state, follow_redirects_policy, event_handler, request_content_len,
       follow_redirects, headers, content_len_header, shared_state, woken,
       pc, op, arg, out, calls, nevents, native_method, native_status,
       native_content_length, statuses, delivered, cl_first, connected,
       mutex, parked, stray >>

\* The Mutex and the wakers stored under it
sync_vars == << mutex, parked >>

\* The fields of EspHttpConnection
conn_vars ==
    << state, follow_redirects_policy, event_handler, request_content_len,
       follow_redirects, headers, content_len_header >>

\* The engine session's own state
engine_vars == << native_method, native_status, native_content_length >>

\* Event ids of esp_http_client_event_id_t
HTTP_EVENT_ON_CONNECTED == 1

HTTP_EVENT_ON_HEADER == 3

Event(id, key, value) == [id |-> id, key |-> key, value |-> value]

\* Values of the handler slot: Option<Box<dyn Fn>>
NoHandler == [kind |-> "None", ss |-> 0]

ClientFutureHandler(ss) == [kind |-> "ClientFuture", ss |-> ss]

HeaderHandler == [kind |-> "fetch_headers", ss |-> 0]

\* Values of content_len_header: Option<Option<String>>
Unset == [set |-> FALSE, val |-> None]

Cached(v) == [set |-> TRUE, val |-> v]

\* Entries of the call log: the primitive, the length handed to open, the
\* header handed to set_header, and the error the call reported (0: none)
Call(fn) == [fn |-> fn, arg |-> 0, hdr |-> <<>>, err |-> 0]

CallOpen(len) == [fn |-> "open", arg |-> len, hdr |-> <<>>, err |-> 0]

CallSetHeader(h) == [fn |-> "set_header", arg |-> 0, hdr |-> h, err |-> 0]

\* The log once its latest call has returned `result` (negative: an error)
returned(log, result) ==
    IF result < 0 THEN [log EXCEPT ![Len(log)].err = result] ELSE log

\* ESP_FAIL, the error of the calls of the model that fail
ESP_FAIL == -1

\* Results of operations
Running == [result |-> "Running", opt |-> None, num |-> 0]

Ok(opt, num) == [result |-> "Ok", opt |-> opt, num |-> num]

Err(code) == [result |-> "Err", opt |-> None, num |-> code]

Panic == [result |-> "Panic", opt |-> None, num |-> 0]

Dropped == [result |-> "Dropped", opt |-> None, num |-> 0]

\* BTreeMap<Uncased, String>, keyed by the names' equivalence classes
EmptyMap == [k \in {} |-> <<>>]

\* A clear that forgets to clear
headers_keep(h) == h

\* BTreeMap::clear
headers_clear(h) == EmptyMap

\* An insert that keeps the value a name already has
headers_insert_if_absent(h, key, value) ==
    [k \in DOMAIN h \cup {Uncased(key)} |->
        IF k \in DOMAIN h THEN h[k] ELSE value]

\* BTreeMap::insert(Uncased::from(key), value)
headers_insert(h, key, value) ==
    [k \in DOMAIN h \cup {Uncased(key)} |->
        IF k = Uncased(key) THEN value ELSE h[k]]

\* BTreeMap::get(UncasedStr::new(name))
headers_get(h, name) ==
    IF Uncased(name) \in DOMAIN h THEN Some(h[Uncased(name)]) ELSE None

\* EspHttpConnection::new
Init ==
    /\ state = "New"
    /\ follow_redirects_policy \in Policies
    /\ event_handler = NoHandler
    /\ request_content_len = U64(0)
    /\ follow_redirects = FALSE
    /\ headers = EmptyMap
    /\ content_len_header = Unset
    /\ shared_state = <<>>
    /\ woken = {}
    /\ pc = "idle"
    /\ op = "new"
    /\ arg = <<>>
    /\ out = Ok(None, 0)
    /\ calls = <<>>
    /\ nevents = 0
    /\ native_method = "Get"
    /\ native_status = 0
    /\ native_content_length = -1
    /\ statuses = <<>>
    /\ delivered = <<>>
    /\ cl_first = Unset
    /\ connected = {}
    /\ mutex = "free"
    /\ parked = {}
    /\ stray = FALSE

\* ------------------------------------------------------------ phase guards
\* Variants of the guards used to test the properties below
assert_initial_new_only(st) == st = "New"

assert_initial_any(st) == TRUE

assert_response_or_request(st) == st # "New"

\* assert_initial: passes (does not panic) in this phase
assert_initial(st) == ~(st # "New" /\ st # "Response")

\* assert_request
assert_request(st) == ~(st # "Request")

\* assert_response
assert_response(st) == ~(st # "Response")

\* A failed assertion: the panic unwinds out of the operation before it has
\* touched the connection or the engine.
panic(name) ==
    /\ pc' = "panicked"
    /\ op' = name
    /\ out' = Panic
    /\ calls' = <<>>
    /\ UNCHANGED << conn_vars, engine_vars, shared_state, woken, arg, nevents,
                    statuses, delivered, cl_first, connected,
                    sync_vars, stray >>

\* EspHttpConnection::check: Err for a negative native result, else the count
check(result) == IF result < 0 THEN Err(result) ELSE Ok(None, result)

\* ------------------------------------------------------- handler slot
\* register_handler: replaces whatever the slot holds
register_handler(slot, handler) == handler

\* A deregistration that leaves the slot as it is
deregister_handler_skipped(slot) == slot

\* deregister_handler
deregister_handler(slot) == NoHandler

\* ------------------------------------------------------- initiate_request
\* The Content-Length scan of the request headers (the for loop's first part)
RECURSIVE request_content_len_of(_, _)
request_content_len_of(hdrs, acc) ==
    IF hdrs = <<>> THEN acc
    ELSE LET name == hdrs[1][1]
             value == hdrs[1][2]
             len == parse_u64(value)
         IN  request_content_len_of(
                 Tail(hdrs),
                 IF eq_ignore_ascii_case(name, CONTENT_LENGTH) /\ len.ok
                 THEN [some |-> TRUE, val |-> len.val]
                 ELSE acc)

\* content_len.unwrap_or(0)
unwrap_or_0(o) == IF o.some THEN o.val ELSE U64(0)

\* A flag that follows under FollowGetHead whatever the method
follow_unless_none(policy, method) == policy # "FollowNone"

\* The effective follow-redirects flag: policy x method
effective_follow_redirects(policy, method) ==
    CASE policy = "FollowAll" -> TRUE
      [] policy = "FollowGetHead" -> (method = "Get" \/ method = "Head")
      [] OTHER -> FALSE

\* The native setters initiate_request calls before it opens, in order
setter_calls(hdrs) ==
    <<Call("set_url"), Call("set_method")>>
        \o [i \in 1..Len(hdrs) |-> CallSetHeader(hdrs[i])]

\* SharedState { completed: false, waker: None }
new_shared_state == [completed |-> FALSE, waker |-> "None"]

\* initiate_request up to the native open made by ClientFuture::new.
\* failAt = 0: every setter succeeds; failAt = k: the k-th setter call fails.
initiate_request(method, hdrs, failAt, maxFutures) ==
    /\ pc = "idle"
    /\ IF ~assert_initial(state)
       THEN failAt = 0 /\ panic("initiate_request")
       ELSE IF failAt # 0
       THEN \* esp!(...)? returns the error; nothing of the connection changed
            /\ pc' = "idle"
            /\ op' = "initiate_request"
            /\ out' = Err(ESP_FAIL)
            /\ calls' = returned(SubSeq(setter_calls(hdrs), 1, failAt), ESP_FAIL)
            /\ native_method' = IF failAt > 2 THEN method ELSE native_method
            /\ UNCHANGED << conn_vars, native_status, native_content_length,
                            shared_state, woken, arg, nevents, statuses,
                            delivered, cl_first, connected,
                    sync_vars, stray >>
       ELSE /\ Len(shared_state) < maxFutures
            /\ follow_redirects' =
                   effective_follow_redirects(follow_redirects_policy, method)
            /\ request_content_len' =
                   unwrap_or_0(request_content_len_of(hdrs, [some |-> FALSE, val |-> U64(0)]))
            /\ native_method' = method
            \* ClientFuture::new: fresh SharedState, handler registered, open called
            /\ shared_state' = Append(shared_state, new_shared_state)
            /\ event_handler' =
                   register_handler(event_handler,
                                    ClientFutureHandler(Len(shared_state) + 1))
            /\ calls' = Append(setter_calls(hdrs), CallOpen(as_c_int(request_content_len')))
            /\ pc' = "new_open"
            /\ nevents' = 0
            /\ op' = "initiate_request"
            /\ out' = Running
            \* the records kept about the previous response end with it
            /\ statuses' = <<>>
            /\ delivered' = <<>>
            /\ cl_first' = Unset
            /\ parked' = {}
            /\ stray' = FALSE
            /\ UNCHANGED << state, follow_redirects_policy, headers,
                            content_len_header, native_status,
                            native_content_length, woken, arg, connected,
                            mutex >>

\* The open of ClientFuture::new returns `result`, which is discarded, and
\* the future is handed to the caller's `.await`.
client_future_new_return(result) ==
    /\ pc = "new_open"
    /\ pc' = "await"
    /\ nevents' = 0
    /\ calls' = returned(calls, result)
    /\ UNCHANGED << conn_vars, engine_vars, shared_state, woken, op, arg, out,
                    statuses, delivered, cl_first, connected,
                    sync_vars, stray >>

\* A poll that reports Ready only to a task it had parked before
poll_ready_if_parked(ss) == ss.completed /\ ss.waker # "None"

\* ClientFuture::poll: Ready iff the SharedState ss is completed
poll_ready(ss) == ss.completed

\* A MutexGuard that outlives the function that took it
keep_guard(m) == m

\* The MutexGuard goes out of scope at the end of ClientFuture::poll and of
\* the handler closure: the Mutex is free again
drop_guard(m) == "free"

\* ClientFuture::poll by a task whose waker is w: lock, test, store the
\* waker, unlock.  Ready resumes initiate_request, which calls
\* esp_http_client_open once more.
poll(w) ==
    /\ pc = "await"
    /\ mutex = "free"
    /\ mutex' = drop_guard("held")
    /\ LET id == Len(shared_state)
       IN  IF poll_ready(shared_state[id])
           THEN /\ calls' = Append(calls, CallOpen(as_c_int(request_content_len)))
                /\ pc' = "open"
                /\ nevents' = 0
                /\ UNCHANGED << shared_state, parked >>
           ELSE /\ shared_state' = [shared_state EXCEPT ![id].waker = w]
                /\ parked' = parked \cup {w}
                /\ UNCHANGED << calls, pc, nevents >>
    /\ UNCHANGED << conn_vars, engine_vars, woken, op, arg, out, statuses,
                    delivered, cl_first, connected, stray >>

\* The caller drops the pending initiate_request future (no cancellation hook
\* exists: nothing of the connection is undone).
drop_future ==
    /\ pc = "await"
    /\ pc' = "idle"
    /\ out' = Dropped
    /\ UNCHANGED << conn_vars, engine_vars, shared_state, woken, op, arg,
                    calls, nevents, statuses, delivered, cl_first, connected,
                    sync_vars, stray >>

\* The second open returns `result`, which is discarded; phase := Request.
initiate_request_return(result) ==
    /\ pc = "open"
    /\ state' = "Request"
    /\ pc' = "idle"
    /\ nevents' = 0
    /\ out' = Ok(None, 0)
    /\ calls' = returned(calls, result)
    /\ UNCHANGED << follow_redirects_policy, event_handler, request_content_len,
                    follow_redirects, headers, content_len_header, engine_vars,
                    shared_state, woken, op, arg, statuses, delivered,
                    cl_first, connected,
                    sync_vars, stray >>

\* ------------------------------------------------------------- callbacks
\* A closure that leaves the stored waker in its slot
client_future_handler_keeps_waker(ss, e) ==
    [completed |-> IF e.id = HTTP_EVENT_ON_CONNECTED THEN TRUE ELSE ss.completed,
     waker |-> ss.waker]

\* A closure that takes any event for the open-complete event
client_future_handler_any_event(ss, e) == [completed |-> TRUE, waker |-> "None"]

\* A closure whose flag follows the latest event instead of latching
client_future_handler_unlatched(ss, e) ==
    [completed |-> e.id = HTTP_EVENT_ON_CONNECTED, waker |-> "None"]

\* The closure registered by ClientFuture::new, run on the SharedState ss:
\* lock, set completed on event 1, take the waker (woken by on_events below)
client_future_handler(ss, e) ==
    [completed |-> IF e.id = HTTP_EVENT_ON_CONNECTED THEN TRUE ELSE ss.completed,
     waker |-> "None"]

\* The closure registered by fetch_headers, run on the Header Store h
header_handler(h, e) ==
    IF e.id = HTTP_EVENT_ON_HEADER THEN headers_insert(h, e.key, e.value) ELSE h

\* on_events: hands the event to the handler in the slot, if any.  The
\* ClientFuture closure blocks in lock() while the Mutex is held.
on_events(e) ==
    CASE event_handler.kind = "ClientFuture" ->
            LET id == event_handler.ss
                ss == shared_state[id]
            IN  /\ mutex = "free"
                /\ mutex' = drop_guard("held")
                /\ shared_state' =
                       [shared_state EXCEPT ![id] = client_future_handler(ss, e)]
                /\ woken' = IF ss.waker # "None" THEN woken \cup {ss.waker}
                            ELSE woken
                /\ UNCHANGED headers
      [] event_handler.kind = "fetch_headers" ->
            /\ headers' = header_handler(headers, e)
            /\ UNCHANGED << shared_state, woken, mutex >>
      [] OTHER ->
            UNCHANGED << headers, shared_state, woken, mutex >>

\* Native calls that may emit callbacks while they run
InFlight == {"new_open", "open", "fetch_headers", "read", "write"}

\* The events the engine may emit during each of them, `resp` being the
\* response headers it may deliver and `late` the ids of the events it may
\* emit while it reads or writes a body besides those of the transfer itself
EngineEvents(call, resp, late) ==
    CASE call \in {"new_open", "open"} ->
            { Event(HTTP_EVENT_ON_CONNECTED, <<>>, <<>>), Event(0, <<>>, <<>>) }
      [] call = "fetch_headers" ->
            { Event(HTTP_EVENT_ON_HEADER, h[1], h[2]) : h \in resp }
                \cup { Event(0, <<>>, <<>>) }
      [] call = "read" ->
            { Event(4, <<>>, <<>>) } \cup { Event(id, <<>>, <<>>) : id \in late }
      [] OTHER ->
            { Event(0, <<>>, <<>>) } \cup { Event(id, <<>>, <<>>) : id \in late }

\* The engine calls on_events synchronously inside the native call in flight.
native_callback(e) ==
    /\ pc \in InFlight
    /\ nevents < MaxEvents
    /\ on_events(e)
    /\ nevents' = nevents + 1
    /\ delivered' = IF pc = "fetch_headers" /\ e.id = HTTP_EVENT_ON_HEADER
                    THEN Append(delivered, <<e.key, e.value>>)
                    ELSE delivered
    /\ UNCHANGED << state, follow_redirects_policy, event_handler,
                    request_content_len, follow_redirects, content_len_header,
                    engine_vars, pc, op, arg, out, calls, statuses, cl_first,
                    parked >>
    /\ stray' = (stray \/ (pc # "fetch_headers" /\ e.id = HTTP_EVENT_ON_HEADER))
    /\ connected' = IF event_handler.kind = "ClientFuture"
                       /\ e.id = HTTP_EVENT_ON_CONNECTED
                    THEN connected \cup {event_handler.ss}
                    ELSE connected

\* ------------------------------------------------ initiate_response
\* The value of the last pair of ds whose name equals q ignoring ASCII case
RECURSIVE LastDelivered(_, _)
LastDelivered(ds, q) ==
    IF ds = <<>> THEN None
    ELSE IF eq_ignore_ascii_case(ds[Len(ds)][1], q) THEN Some(ds[Len(ds)][2])
    ELSE LastDelivered(SubSeq(ds, 1, Len(ds) - 1), q)

\* What esp_http_client_get_content_length may return once the headers ds
\* have been parsed: the number the response's Content-Length header holds,
\* or a negative value (length unknown: no such header, a chunked body)
engine_content_lengths(ds) ==
    LET v == LastDelivered(ds, CONTENT_LENGTH)
    IN  {-1} \cup (IF v.some /\ parse_u64(v.str).ok
                   THEN {DigitsValue(v.str)} ELSE {})

\* A redirect test that forgets 304
is_redirect_class(status) == status >= 300 /\ status < 400

\* status::REDIRECT.contains(&status) && status != 304
is_followed_redirect(status) == (status >= 300 /\ status < 400) /\ status # 304

\* A redirect preparation that re-opens before it has flushed
redirect_calls_reopen_first(len) ==
    << CallOpen(len), Call("flush_response"), Call("set_method"),
       Call("set_redirection") >>

\* The redirect preparation of fetch_headers, in order
redirect_calls(len) ==
    << Call("flush_response"), Call("set_method"), Call("set_redirection"),
       CallOpen(len) >>

\* initiate_response up to the first native fetch of fetch_headers
initiate_response ==
    /\ pc = "idle"
    /\ IF ~assert_request(state)
       THEN panic("initiate_response")
       ELSE /\ headers' = headers_clear(headers)
            /\ content_len_header' = Unset
            /\ event_handler' = register_handler(event_handler, HeaderHandler)
            /\ calls' = <<Call("fetch_headers")>>
            /\ pc' = "fetch_headers"
            /\ nevents' = 0
            /\ op' = "initiate_response"
            /\ out' = Running
            /\ statuses' = <<>>
            /\ delivered' = <<>>
            /\ cl_first' = Unset
            /\ UNCHANGED << state, follow_redirects_policy, request_content_len,
                            follow_redirects, engine_vars, shared_state, woken,
                            arg, connected,
                    sync_vars, stray >>

\* A phase assignment that does not wait for the `?`
phase_response_always(st, res) == "Response"

\* initiate_response after `self.fetch_headers().await?`: the phase becomes
\* Response unless fetch_headers returned an error
initiate_response_phase(st, res) ==
    IF res.result = "Ok" THEN "Response" ELSE st

\* esp_http_client_fetch_headers returns `result`, the session then holding
\* `status` and `clen`; fetch_headers runs on to its next native fetch or to
\* its return.  failAt = k: the k-th call of the redirect preparation fails.
\* (flush_response and open run with the slot empty: on_events drops whatever
\* they emit.)
fetch_headers_return(result, status, clen, failAt) ==
    /\ pc = "fetch_headers"
    /\ status \in 300..399 => Len(statuses) < MaxRedirects
    /\ IF check(result).result = "Err"
       THEN /\ failAt = 0 /\ status = native_status /\ clen = native_content_length
            /\ event_handler' = deregister_handler(event_handler)
            /\ pc' = "idle"
            /\ nevents' = 0
            /\ out' = check(result)
            /\ calls' = returned(calls, result)
            /\ state' = initiate_response_phase(state, out')
            /\ UNCHANGED << headers, engine_vars, statuses, delivered >>
       ELSE /\ clen \in engine_content_lengths(delivered)
            /\ native_status' = status
            /\ native_content_length' = clen
            /\ statuses' = Append(statuses, status)
            /\ IF follow_redirects /\ is_followed_redirect(status)
               THEN /\ calls' = calls \o <<Call("get_status_code")>>
                                  \o (IF failAt = 0
                                      THEN redirect_calls(as_c_int(request_content_len))
                                               \o <<Call("fetch_headers")>>
                                      ELSE returned(
                                               SubSeq(redirect_calls(as_c_int(request_content_len)),
                                                      1, failAt),
                                               ESP_FAIL))
                    /\ native_method' = IF failAt = 0 \/ failAt > 2 THEN "Get"
                                        ELSE native_method
                    /\ IF failAt = 0
                       THEN /\ headers' = headers_clear(headers)
                            /\ event_handler' =
                                   register_handler(deregister_handler(event_handler),
                                                    HeaderHandler)
                            /\ nevents' = 0
                            /\ delivered' = <<>>
                            /\ UNCHANGED << pc, out, state >>
                       ELSE /\ event_handler' = deregister_handler(event_handler)
                            /\ pc' = "idle"
                            /\ nevents' = 0
                            /\ out' = Err(ESP_FAIL)
                            /\ state' = initiate_response_phase(state, out')
                            /\ UNCHANGED << headers, delivered >>
               ELSE /\ failAt = 0
                    /\ event_handler' = deregister_handler(event_handler)
                    /\ calls' = IF follow_redirects
                                THEN Append(calls, Call("get_status_code"))
                                ELSE calls
                    /\ pc' = "idle"
                    /\ nevents' = 0
                    /\ out' = Ok(None, 0)
                    /\ state' = initiate_response_phase(state, out')
                    /\ UNCHANGED << headers, native_method, delivered >>
    /\ UNCHANGED << follow_redirects_policy, request_content_len,
                    follow_redirects, content_len_header, shared_state, woken,
                    op, arg, cl_first, connected,
                    sync_vars, stray >>

\* ------------------------------------------------------------- accessors
\* status
status ==
    /\ pc = "idle"
    /\ IF ~assert_response(state)
       THEN panic("status")
       ELSE /\ op' = "status"
            /\ out' = Ok(None, native_status)
            /\ calls' = <<Call("get_status_code")>>
            /\ UNCHANGED << conn_vars, engine_vars, shared_state, woken, pc,
                            arg, nevents, statuses, delivered, cl_first,
                            connected,
                    sync_vars, stray >>

\* status_message
status_message ==
    /\ pc = "idle"
    /\ IF ~assert_response(state)
       THEN panic("status_message")
       ELSE /\ op' = "status_message"
            /\ out' = Ok(None, 0)
            /\ calls' = <<>>
            /\ UNCHANGED << conn_vars, engine_vars, shared_state, woken, pc,
                            arg, nevents, statuses, delivered, cl_first,
                            connected,
                    sync_vars, stray >>

\* split
split ==
    /\ pc = "idle"
    /\ IF ~assert_response(state)
       THEN panic("split")
       ELSE /\ op' = "split"
            /\ out' = Ok(None, 0)
            /\ calls' = <<>>
            /\ UNCHANGED << conn_vars, engine_vars, shared_state, woken, pc,
                            arg, nevents, statuses, delivered, cl_first,
                            connected,
                    sync_vars, stray >>

\* What header() stores in content_len_header after querying the engine
content_len_cache(content_len) ==
    IF content_len >= 0 THEN Cached(Some(to_string(content_len))) ELSE Unset

\* header(name)
header(name) ==
    /\ pc = "idle"
    /\ IF ~assert_response(state)
       THEN panic("header")
       ELSE /\ op' = "header"
            /\ arg' = name
            /\ IF eq_ignore_ascii_case(name, CONTENT_LENGTH)
               THEN /\ IF content_len_header.set
                       THEN /\ out' = Ok(content_len_header.val, 0)
                            /\ calls' = <<>>
                            /\ UNCHANGED content_len_header
                       ELSE /\ calls' = <<Call("get_content_length")>>
                            /\ content_len_header' =
                                   content_len_cache(native_content_length)
                            /\ out' = Ok(IF content_len_header'.set
                                         THEN content_len_header'.val
                                         ELSE None, 0)
                    /\ cl_first' = IF cl_first.set THEN cl_first
                                   ELSE Cached(out'.opt)
               ELSE /\ out' = Ok(headers_get(headers, name), 0)
                    /\ calls' = <<>>
                    /\ UNCHANGED << content_len_header, cl_first >>
            /\ UNCHANGED << state, follow_redirects_policy, event_handler,
                            request_content_len, follow_redirects, headers,
                            engine_vars, shared_state, woken, pc, nevents,
                            statuses, delivered, connected,
                    sync_vars, stray >>

\* ------------------------------------------------------------------ body
\* read up to its native esp_http_client_read_response call
read ==
    /\ pc = "idle"
    /\ IF ~assert_response(state)
       THEN panic("read")
       ELSE /\ op' = "read"
            /\ out' = Running
            /\ calls' = <<Call("read_response")>>
            /\ pc' = "read"
            /\ nevents' = 0
            /\ UNCHANGED << conn_vars, engine_vars, shared_state, woken, arg,
                            statuses, delivered, cl_first, connected,
                    sync_vars, stray >>

\* write up to its native esp_http_client_write call
write ==
    /\ pc = "idle"
    /\ IF ~assert_request(state)
       THEN panic("write")
       ELSE /\ op' = "write"
            /\ out' = Running
            /\ calls' = <<Call("write")>>
            /\ pc' = "write"
            /\ nevents' = 0
            /\ UNCHANGED << conn_vars, engine_vars, shared_state, woken, arg,
                            statuses, delivered, cl_first, connected,
                    sync_vars, stray >>

\* The native read or write returns `result`: Self::check(result)
io_return(result) ==
    /\ pc \in {"read", "write"}
    /\ pc' = "idle"
    /\ nevents' = 0
    /\ out' = check(result)
    /\ calls' = returned(calls, result)
    /\ UNCHANGED << conn_vars, engine_vars, shared_state, woken, op, arg,
                    statuses, delivered, cl_first, connected,
                    sync_vars, stray >>

\* flush
flush ==
    /\ pc = "idle"
    /\ IF ~assert_request(state)
       THEN panic("flush")
       ELSE /\ op' = "flush"
            /\ out' = Ok(None, 0)
            /\ calls' = <<>>
            /\ UNCHANGED << conn_vars, engine_vars, shared_state, woken, pc,
                            arg, nevents, statuses, delivered, cl_first,
                            connected,
                    sync_vars, stray >>

\* ----------------------------------------------------------- specification
\* One step of the connection, its caller or the engine, the caller's and the
\* engine's choices drawn from the given sets.
Step(methods, reqs, resp, queries, sts, clens, wakers, maxFutures, late) ==
    \/ \E m \in methods, hdrs \in reqs, failAt \in 0..4 :
          failAt <= 2 + Len(hdrs) /\ initiate_request(m, hdrs, failAt, maxFutures)
    \/ \E e \in EngineEvents(pc, resp, late) : native_callback(e)
    \/ \E result \in {0, ESP_FAIL} : client_future_new_return(result)
    \/ \E w \in wakers : poll(w)
    \/ drop_future
    \/ \E result \in {0, ESP_FAIL} : initiate_request_return(result)
    \/ initiate_response
    \/ \E result \in NativeResults, st \in sts, clen \in clens,
          failAt \in 0..4 : fetch_headers_return(result, st, clen, failAt)
    \/ status
    \/ status_message
    \/ split
    \/ \E name \in queries : header(name)
    \/ read
    \/ write
    \/ \E result \in NativeResults : io_return(result)
    \/ flush

\* The phase machine over repeated request/response cycles, under the default
\* policy (FollowGetHead), with one response header (Content-Length: 7).
InitDefault == Init /\ follow_redirects_policy = "FollowGetHead"

Next ==
    Step({"Get", "Post"}, {<<>>}, { << CONTENT_LENGTH, <<"7">> >> },
         { <<"e","t","a","g">>, CONTENT_LENGTH }, {200, 302}, ContentLengths,
         {"w1"}, MaxFutures, {})

Spec == InitDefault /\ [][Next]_vars


\* One request/response cycle under every policy and method.
NextPolicy ==
    Step(Methods, ReqHeaderLists, { << <<"E","T","a","g">>, <<"7">> >> },
         { <<"e","t","a","g">> }, Statuses, ContentLengths, {"w1"}, 1, {})

SpecPolicy == Init /\ [][NextPolicy]_vars

\* One request/response cycle of a GET under FollowAll, with every response
\* header and query name.
InitHeaders == Init /\ follow_redirects_policy = "FollowAll"

NextHeaders ==
    Step({"Get"}, {<<>>}, RespHeaders, QueryNames, Statuses, ContentLengths,
         {"w1"}, 1, {})

SpecHeaders == InitHeaders /\ [][NextHeaders]_vars

\* Repeated cycles without redirects, polled by two tasks, the engine being
\* free to report a connection while it reads or writes a body.
InitWaker == Init /\ follow_redirects_policy = "FollowNone"

NextWaker ==
    Step({"Get"}, {<<>>}, { << <<"E","T","a","g">>, <<"7">> >> },
         { <<"e","t","a","g">> }, {200}, {-1}, Wakers, MaxFutures,
         {HTTP_EVENT_ON_CONNECTED})

SpecWaker == InitWaker /\ [][NextWaker]_vars

\* Repeated cycles without redirects under a scheduler whose tasks poll a
\* pending ClientFuture again and again, and an engine whose open calls
\* return.
NextFair ==
    Step({"Get"}, {<<>>}, { << <<"E","T","a","g">>, <<"7">> >> },
         { <<"e","t","a","g">> }, {200}, {-1}, Wakers, MaxFutures, {})

Fairness ==
    /\ WF_vars(\E w \in Wakers : poll(w))
    /\ WF_vars(\E result \in {0, ESP_FAIL} : client_future_new_return(result))
    /\ WF_vars(\E result \in {0, ESP_FAIL} : initiate_request_return(result))

SpecFair == InitWaker /\ [][NextFair]_vars /\ Fairness

\* Repeated cycles of a GET under FollowAll, the engine being free to report
\* a header while it reads or writes a body.
NextFrame ==
    Step({"Get"}, {<<>>}, { << <<"E","T","a","g">>, <<"7">> >> },
         { <<"e","t","a","g">> }, {200, 302}, {-1}, {"w1"}, MaxFutures,
         {HTTP_EVENT_ON_HEADER})

SpecFrame == InitHeaders /\ [][NextFrame]_vars

\* ================================================================ properties
ResponseOnlyOps == {"status", "status_message", "header", "split", "read"}

RequestOnlyOps == {"write", "flush", "initiate_response"}

\* A step taken from pc = "idle" is the call of the operation named by op'.

\* C1: status, status_message, header, split and read are accepted only in
\* phase Response, and write, flush and initiate_response only in phase
\* Request; in any other phase the call panics, invokes no native primitive
\* and leaves the phase as it was.
C1_PhaseGuard ==
    [][ (pc = "idle" /\ op' \in ResponseOnlyOps \cup RequestOnlyOps) =>
            LET legal == IF op' \in ResponseOnlyOps THEN state = "Response"
                         ELSE state = "Request"
            IN  IF legal
                THEN out'.result # "Panic" /\ pc' # "panicked"
                ELSE /\ out'.result = "Panic"
                     /\ pc' = "panicked"
                     /\ calls' = <<>>
                     /\ state' = state ]_vars

\* C1 witness: a Response-only operation called in phase Request has panicked.
C1_Witness ==
    pc = "panicked" /\ op \in ResponseOnlyOps /\ state = "Request"

\* C2: a second initiate_request issued in phase Request panics, and a
\* Response-only accessor called before initiate_response has completed
\* (phase New or Request) panics.
C2_RejectsEarlyCalls ==
    [][ ( /\ pc = "idle"
          /\ \/ op' = "initiate_request" /\ state = "Request"
             \/ op' \in ResponseOnlyOps /\ state \in {"New", "Request"} )
        => (out'.result = "Panic" /\ pc' = "panicked") ]_vars

\* C2 witness: initiate_request was called in phase Request and panicked.
C2_Witness ==
    pc = "panicked" /\ op = "initiate_request" /\ state = "Request"

C4_HandlerSlotEmptyAfterOp ==
    ( /\ pc = "idle"
      /\ op \in {"initiate_request", "initiate_response", "read", "write", "flush"}
      /\ out.result \in {"Ok", "Err"} )
    => event_handler = NoHandler

\* C5: a poll of a ClientFuture whose handler has already been handed the
\* open-complete event (id 1) returns Ready, the first poll included: from
\* "await" such a future is either dropped or resumed, never left pending.
C5_NoLostWakeup ==
    [][ (pc = "await" /\ Len(shared_state) \in connected /\ pc' # "idle")
            => pc' = "open" ]_vars

\* C5 witness: the event fired inside the open of ClientFuture::new, no poll
\* ever parked a waker, and the first poll has resumed initiate_request.
C5_Witness ==
    /\ pc = "open"
    /\ Len(shared_state) \in connected
    /\ woken = {}
    /\ shared_state[Len(shared_state)].waker = "None"

\* Number of calls of the native primitive fn in a call log
RECURSIVE CountCalls(_, _)
CountCalls(log, fn) ==
    IF log = <<>> THEN 0
    ELSE (IF log[1].fn = fn THEN 1 ELSE 0) + CountCalls(Tail(log), fn)

\* A 3xx status other than 304
Followable(st) == st \in 300..399 /\ st # 304

\* initiate_response has just returned Ok
ResponseFetched ==
    pc = "idle" /\ op = "initiate_response" /\ out.result = "Ok"

\* C6: with the follow-redirects flag set, when initiate_response succeeds
\* the engine has reported N followable statuses (3xx, not 304) and then one
\* that is not, the native fetch-headers primitive has been invoked exactly
\* N + 1 times, and the Header Store holds exactly the headers delivered
\* during the last fetch.
C6_RedirectLoop ==
    (ResponseFetched /\ follow_redirects) =>
        LET n == Len(statuses) - 1
        IN  /\ n >= 0
            /\ \A i \in 1..n : Followable(statuses[i])
            /\ ~Followable(statuses[n + 1])
            /\ CountCalls(calls, "fetch_headers") = n + 1
            /\ state = "Response"
            /\ DOMAIN headers = { Uncased(delivered[i][1]) : i \in 1..Len(delivered) }
            /\ \A i \in 1..Len(delivered) :
                   Some(headers[Uncased(delivered[i][1])])
                       = LastDelivered(delivered, delivered[i][1])

\* C6 witness: two redirects followed, then a final response with headers.
C6_Witness ==
    /\ ResponseFetched /\ follow_redirects
    /\ Len(statuses) = 3 /\ statuses[3] = 200
    /\ Len(delivered) = 2

\* C7: with the flag set, a header fetch after which the status is 304 ends
\* the loop: no flush, set_redirection, re-open or further fetch follows, and
\* initiate_response returns Ok in phase Response - after exactly one fetch
\* when 304 is the first status.
C7_NotModifiedNotFollowed ==
    [][ ( /\ pc = "fetch_headers" /\ follow_redirects
          /\ Len(statuses') = Len(statuses) + 1
          /\ statuses'[Len(statuses')] = 304 )
        => /\ pc' = "idle"
           /\ out'.result = "Ok"
           /\ state' = "Response"
           /\ calls' = Append(calls, Call("get_status_code"))
           /\ Len(statuses') = 1 => CountCalls(calls', "fetch_headers") = 1 ]_vars

\* C7 witness: initiate_response has returned Ok on a first status of 304
\* with the flag set.
C7_Witness ==
    ResponseFetched /\ follow_redirects /\ statuses = <<304>>
        /\ state = "Response"

\* C8: in one Response phase the first header("Content-Length") makes exactly
\* one query to the native content-length accessor, and every later one makes
\* none and returns what the first returned.
C8_ContentLengthCached ==
    [][ ( /\ pc = "idle" /\ op' = "header" /\ out'.result = "Ok"
          /\ eq_ignore_ascii_case(arg', CONTENT_LENGTH) )
        => IF cl_first.set
           THEN calls' = <<>> /\ out'.opt = cl_first.val
           ELSE calls' = <<Call("get_content_length")>> ]_vars

\* C9 as stated: header(q) returns the value of the last delivered pair whose
\* name equals q ignoring ASCII case, Content-Length included, and None for a
\* name never delivered.
C9_HeaderRoundTrip ==
    [][ (pc = "idle" /\ op' = "header" /\ out'.result = "Ok")
        => out'.opt = LastDelivered(delivered, arg') ]_vars

\* C9 amended: for every name q other than Content-Length (ignoring ASCII
\* case) header(q) returns the value of the last delivered pair whose name
\* equals q ignoring ASCII case, and None for a name never delivered; for
\* Content-Length, in any casing, it returns the decimal rendering of the
\* engine's content length, or None when that is negative, whatever
\* Content-Length header was delivered.
C9_HeaderRoundTripButContentLength ==
    [][ (pc = "idle" /\ op' = "header" /\ out'.result = "Ok")
        => IF eq_ignore_ascii_case(arg', CONTENT_LENGTH)
           THEN out'.opt = IF native_content_length >= 0
                           THEN Some(to_string(native_content_length))
                           ELSE None
           ELSE out'.opt = LastDelivered(delivered, arg') ]_vars

\* C9 witness: ETag delivered twice under two casings with two values, and
\* asked for under a third casing: the later value is returned.
C9_Witness ==
    /\ pc = "idle" /\ op = "header" /\ arg = <<"E","T","A","G">>
    /\ delivered = << << <<"E","T","a","g">>, <<"7">> >>,
                      << <<"e","t","a","g">>, <<"0","7">> >> >>
    /\ out = Ok(Some(<<"0","7">>), 0)

\* The flag the policy and the method call for
ExpectedFollow(policy, method) ==
    \/ policy = "FollowAll"
    \/ policy = "FollowGetHead" /\ method \in {"Get", "Head"}

\* C10: after initiate_request(method, ...) the flag is true iff the policy
\* is FollowAll, or FollowGetHead with GET or HEAD; and with the flag false
\* initiate_response makes exactly one header fetch and never re-opens,
\* whatever status the engine reports.
C10_EffectiveFollowFlag ==
    /\ (pc = "idle" /\ op = "initiate_request" /\ out.result = "Ok")
          => follow_redirects =
                 ExpectedFollow(follow_redirects_policy, native_method)
    /\ ( /\ pc = "idle" /\ op = "initiate_response"
         /\ out.result \in {"Ok", "Err"} /\ ~follow_redirects )
          => /\ CountCalls(calls, "fetch_headers") = 1
             /\ CountCalls(calls, "open") = 0
             /\ statuses # <<>> => (out.result = "Ok" /\ Len(statuses) = 1)

\* C10 witness: FollowGetHead with POST, a 302 reported, and
\* initiate_response returned Ok after its single fetch.
C10_Witness ==
    /\ ResponseFetched
    /\ follow_redirects_policy = "FollowGetHead" /\ native_method = "Post"
    /\ ~follow_redirects
    /\ statuses = <<302>>

\* The values a request's Content-Length headers declare, read off the
\* set_header calls of the log; 0 when no header declares one
DeclaredLengths(log) ==
    LET vs == { parse_u64(log[i].hdr[2]).val :
                  i \in { j \in 1..Len(log) :
                            /\ log[j].fn = "set_header"
                            /\ Uncased(log[j].hdr[1]) = Uncased(CONTENT_LENGTH)
                            /\ parse_u64(log[j].hdr[2]).ok } }
    IN  IF vs = {} THEN {U64(0)} ELSE vs

\* C11 (Declared request length): once initiate_request has run its header
\* loop, request_content_len is the number the request's Content-Length
\* header declares (0 without one), and every open call made for the request,
\* by initiate_request and by a redirect of initiate_response, is handed
\* exactly that number.
C11_DeclaredLengthPassedToOpen ==
    /\ (op = "initiate_request" /\ out.result \in {"Running", "Ok", "Dropped"})
          => request_content_len \in DeclaredLengths(calls)
    /\ op \in {"initiate_request", "initiate_response"}
          => \A i \in 1..Len(calls) :
                calls[i].fn = "open"
                   => calls[i].arg >= 0 /\ U64(calls[i].arg) = request_content_len

\* C12 (Engine errors propagate): when a native primitive an operation
\* invoked (URL/method/header setters, open, flush-response, set-redirection,
\* fetch-headers, read, write) reported a failure, the operation returns an
\* error carrying that native code and not a success; a failed open during
\* initiate_request makes initiate_request return an error.
C12_EngineErrorsPropagate ==
    (/\ pc = "idle"
     /\ op \in {"initiate_request", "initiate_response", "read", "write"}
     /\ out.result \in {"Ok", "Err"})
       => \A i \in 1..Len(calls) : calls[i].err < 0 => out = Err(calls[i].err)

\* C13 (Bridge resolves on failure): whatever the native open does (success,
\* immediate failure, never signalling the target event), a ClientFuture
\* that a scheduler keeps polling does not stay pending forever: the await
\* of initiate_request is eventually left.
C13_BridgeResolves == (pc = "await") ~> (pc # "await")

\* C14 (Completion State monotonicity): every ClientFuture::new allocates a
\* fresh Completion State with completed = false and no waker, and a
\* Completion State whose completed flag is true keeps it true through every
\* later step (polls, callbacks of later native calls to its still
\* registered handler), so that a poll of it reports Ready from then on.
C14_CompletionMonotone ==
    [][/\ Len(shared_state') >= Len(shared_state)
       /\ \A i \in 1..Len(shared_state) :
             shared_state[i].completed
                => shared_state'[i].completed /\ poll_ready(shared_state'[i])
       /\ \A i \in (Len(shared_state) + 1)..Len(shared_state') :
             shared_state'[i] = [completed |-> FALSE, waker |-> "None"]]_vars

\* A later native call (write) has handed an event to the handler of a
\* completed ClientFuture.
C14_Witness ==
    /\ pc = "write"
    /\ nevents > 0
    /\ event_handler.kind = "ClientFuture"
    /\ shared_state[event_handler.ss].completed
    /\ event_handler.ss = 2

\* C15 (One open per request): an initiate_request that returns Ok has
\* invoked the native open primitive exactly once.
C15_SingleOpen ==
    (pc = "idle" /\ op = "initiate_request" /\ out.result = "Ok")
       => CountCalls(calls, "open") = 1

\* C16 (Opened-before-Request ordering): the phase becomes Request only in
\* initiate_request and only after event 1 (open-complete) was delivered to
\* the handler that this initiate_request registered; while the phase is
\* Request that delivery has happened.
C16_OpenedBeforeRequest ==
    [][state' = "Request"
          => /\ Len(shared_state') >= 1
             /\ Len(shared_state') \in connected'
             /\ state # "Request"
                   => /\ op = "initiate_request"
                      /\ event_handler = ClientFutureHandler(Len(shared_state))
                      /\ Len(shared_state) \in connected]_vars

\* The second request of a connection, begun in phase Response, has reached
\* phase Request.
C16_Witness ==
    /\ state = "Request"
    /\ pc = "idle"
    /\ op = "initiate_request"
    /\ Len(shared_state) = 2
    /\ 2 \in connected

\* A poll of the awaited ClientFuture has reported Pending in this step
PolledPending == pc = "await" /\ pc' = "await"

\* A callback has run the handler of a ClientFuture in this step
BridgeCallback == nevents' = nevents + 1 /\ event_handler.kind = "ClientFuture"

\* C17 (Waker hand-off): a poll that finds completed = false leaves one
\* waker, that of the polling task, in the slot (whatever the slot held
\* before) and the future not completed; a callback that leaves completed true
\* has invoked the waker the slot held, the most recently stored one, and a
\* callback invokes no other waker; no Completion State is completed with a
\* waker still stored.
C17_WakerHandOff ==
    [][/\ PolledPending
          => LET id == Len(shared_state)
             IN  /\ ~shared_state[id].completed /\ ~shared_state'[id].completed
                 /\ shared_state'[id].waker \in Wakers
                 /\ parked' = parked \cup {shared_state'[id].waker}
                 /\ woken' = woken
       /\ BridgeCallback
          => LET id == event_handler.ss
                 stored == shared_state[id].waker
             IN  /\ woken' \subseteq woken \cup ({stored} \ {"None"})
                 /\ (shared_state'[id].completed /\ stored # "None")
                       => stored \in woken'
                 /\ id \in connected' => shared_state'[id].completed
       /\ woken' # woken => BridgeCallback
       /\ \A i \in 1..Len(shared_state') :
             shared_state'[i].completed => shared_state'[i].waker = "None"]_vars

\* Two tasks polled the second ClientFuture, w1 first and w2 last; the
\* open-complete event then reached its handler, which woke w2 alone.
C17_Witness ==
    /\ Len(shared_state) = 2
    /\ shared_state[2].completed
    /\ 2 \in connected
    /\ parked = {"w1", "w2"}
    /\ woken = {"w2"}

\* A callback that would block in lock(): the engine is inside a native call,
\* the slot holds a ClientFuture handler and the Mutex is held
CallbackBlocked ==
    pc \in InFlight /\ event_handler.kind = "ClientFuture" /\ mutex # "free"

\* C18 (Lock discipline): the Completion State mutex is free whenever a
\* blocking native call (open, fetch-headers, read, write) is in progress,
\* so that no callback fired inside one is ever blocked on the mutex.
C18_LockFreeInNativeCalls ==
    /\ pc \in InFlight => mutex = "free"
    /\ ~CallbackBlocked

\* Inside the open that follows a poll (which took the lock), a callback has
\* run the ClientFuture handler (which took it again).
C18_Witness ==
    /\ pc = "open"
    /\ nevents > 0
    /\ event_handler.kind = "ClientFuture"
    /\ mutex = "free"

\* The native calls of one turn of the header-fetch loop, in order; after
\* the last comes the first again
LoopCalls ==
    << "fetch_headers", "get_status_code", "flush_response", "set_method",
       "set_redirection", "open" >>

\* The number of followed redirects among the statuses st
RECURSIVE CountFollowed(_)
CountFollowed(st) ==
    IF st = <<>> THEN 0
    ELSE (IF Followable(st[1]) THEN 1 ELSE 0) + CountFollowed(Tail(st))

\* C19 (Redirect step ordering): in initiate_response every followed
\* redirect runs flush-response, set-method(GET), set-redirection and open
\* (with the request's recorded length, as open takes it) in this order before
\* the next fetch-headers; each step runs only after the one before it
\* succeeded; a failed step is the last call made, its error is what
\* initiate_response returns, and the handler slot is then empty.
C19_RedirectStepOrder ==
    (op = "initiate_response" /\ out.result # "Panic")
       => /\ calls # <<>> /\ calls[1].fn = "fetch_headers"
          /\ \A j \in 2..Len(calls) :
                \E k \in 1..6 :
                   /\ calls[j - 1].fn = LoopCalls[k]
                   /\ calls[j - 1].err = 0
                   /\ calls[j].fn = LoopCalls[(k % 6) + 1]
          /\ \A j \in 1..Len(calls) :
                /\ calls[j].fn = "open"
                      => calls[j].arg = as_c_int(request_content_len)
                /\ (calls[j].fn = "set_method" /\ calls[j].err = 0)
                      => native_method = "Get"
                /\ calls[j].err < 0
                      => /\ j = Len(calls)
                         /\ pc = "idle"
                         /\ out = Err(calls[j].err)
                         /\ event_handler = NoHandler
          /\ pc = "fetch_headers" => calls[Len(calls)].fn = "fetch_headers"
          /\ (pc = "idle" /\ out.result = "Ok")
                => calls[Len(calls)].fn \in {"fetch_headers", "get_status_code"}
          /\ CountCalls(calls, "flush_response")
                = IF follow_redirects THEN CountFollowed(statuses) ELSE 0

\* After one redirect was followed through its four steps, the second
\* redirect failed at set-redirection, for a request that declared a length.
C19_Witness ==
    /\ op = "initiate_response"
    /\ pc = "idle"
    /\ out = Err(ESP_FAIL)
    /\ calls[Len(calls)].fn = "set_redirection"
    /\ CountCalls(calls, "open") = 1
    /\ event_handler = NoHandler
    /\ request_content_len # U64(0)

\* C20 (Phase unchanged on error): a step in which an operation returns an
\* error leaves the phase as it was (for initiate_response: Request); the
\* phase changes only in the step in which initiate_request returns Ok (to
\* Request) or initiate_response returns Ok (to Response).
C20_PhaseUnchangedOnError ==
    [][/\ out'.result = "Err" => state' = state
       /\ (op' = "initiate_response" /\ out'.result = "Err") => state' = "Request"
       /\ state' # state
             => /\ pc' = "idle"
                /\ out'.result = "Ok"
                /\ \/ op' = "initiate_request" /\ pc = "open" /\ state' = "Request"
                   \/ /\ op' = "initiate_response" /\ pc = "fetch_headers"
                      /\ state' = "Response"]_vars

\* initiate_response has returned the error of a redirect's failed re-open:
\* the phase is Request.
C20_Witness ==
    /\ pc = "idle"
    /\ op = "initiate_response"
    /\ out = Err(ESP_FAIL)
    /\ calls[Len(calls)].fn = "open"
    /\ state = "Request"

\* Operations other than initiate_response
OtherOps ==
    {"initiate_request", "write", "flush", "read", "status", "status_message",
     "header", "split"}

\* C21 (Header Store frame): the Header Store changes only in a step of
\* initiate_response (the clear at the start of fetch_headers, a callback
\* inside the header fetch, the clear before a redirect's next fetch); no
\* step of another operation changes it, and no callback delivered outside a
\* header fetch, whatever event it carries and whatever handler the slot
\* still holds, changes it.
C21_HeaderStoreFrame ==
    [][/\ headers' # headers
          => /\ op' = "initiate_response"
             /\ pc = "fetch_headers" \/ pc' = "fetch_headers"
       /\ op' \in OtherOps => headers' = headers
       /\ (nevents' = nevents + 1 /\ pc # "fetch_headers") => headers' = headers]_vars

\* While the second request writes its body, the engine has handed a header
\* event to the handler its initiate_request left registered; the Header
\* Store still holds the first response's headers.
C21_Witness ==
    /\ pc = "write"
    /\ stray
    /\ event_handler.kind = "ClientFuture"
    /\ headers # EmptyMap
====
